---- MODULE Spec2Model ----
(***************************************************************************)
(* Model of the two Lit components of dev-profile:                         *)
(*   <profile-card>  src/src/components/profile-card.ts  (ProfileCard)     *)
(*   <skill-badge>   src/src/components/skill-badge.ts   (SkillBadge)      *)
(* One element instance is created by tag name, its reactive properties    *)
(* are mutated by the host, the update cycle renders it, and click and     *)
(* keydown inputs reach the listeners that render() binds on the root.     *)
(***************************************************************************)
EXTENDS Integers, Sequences, FiniteSets, TLC

VARIABLES
    tag,              \* the custom element's tag name (which class it is)
    el,               \* the instance's reactive properties
    rendered,         \* children of the shadow root: <<>> or <<view>>
    isUpdatePending,  \* a render pass is scheduled and has not run yet
    events,           \* the events dispatched on the host so far, in order
    last              \* what the last step was and what it did

vars == <<tag, el, rendered, isUpdatePending, events, last>>

----------------------------------------------------------------------------
(* Bounds and input domains *)

MaxEvents == 1

Names   == {"", "Sarah Johnson"}
Titles  == {"", "Frontend Developer"}
Avatars == {"", "https://example.com/avatar.jpg"}
Skills  == {"", "TypeScript"}

LevelNames == {"beginner", "intermediate", "advanced", "expert"}

\* what the host may assign to level: the attribute is an unvalidated string
Levels == LevelNames \cup {"guru", "badge", "clickable"}

Keys == {"Enter", " ", "Escape"}

----------------------------------------------------------------------------
(* Helpers standing for the platform *)

\* A JavaScript object literal: pairs is the sequence of <<key, value>>
\* entries in source order; a repeated key keeps the value of its last entry.
ObjectLiteral(pairs) ==
    [k \in {pairs[i][1] : i \in DOMAIN pairs} |->
        LET i == CHOOSE j \in DOMAIN pairs :
                    /\ pairs[j][1] = k
                    /\ \A m \in DOMAIN pairs : pairs[m][1] = k => m <= j
        IN  pairs[i][2]]

\* lit/directives/class-map.js: the set of keys whose value is truthy
classMap(classInfo) == {k \in DOMAIN classInfo : classInfo[k]}

CustomEvent(type, init) ==
    [type |-> type, detail |-> init.detail,
     bubbles |-> init.bubbles, composed |-> init.composed]

KeyboardEvent(key) == [key |-> key, defaultPrevented |-> FALSE]

----------------------------------------------------------------------------
(* ProfileCard *)

\* static styles: the declarations that read a custom property, one record
\* per var(--hook, default); media is "all" or "dark" for the declarations
\* inside @media (prefers-color-scheme: dark).
ProfileCard_lightRules ==
    { [media |-> "all", selector |-> ".container", property |-> "border",
      hook |-> "profile-border-color", default |-> "#e0e0e0"],
     [media |-> "all", selector |-> ".container", property |-> "border-radius",
      hook |-> "profile-border-radius", default |-> "8px"],
     [media |-> "all", selector |-> ".container", property |-> "padding",
      hook |-> "profile-padding", default |-> "24px"],
     [media |-> "all", selector |-> ".container", property |-> "background",
      hook |-> "profile-bg-color", default |-> "#ffffff"],
     [media |-> "all", selector |-> ".container", property |-> "box-shadow",
      hook |-> "profile-shadow", default |-> "0 2px 4px rgba(0, 0, 0, 0.1)"],
     [media |-> "all", selector |-> ".container:hover", property |-> "box-shadow",
      hook |-> "profile-shadow-hover", default |-> "0 4px 8px rgba(0, 0, 0, 0.15)"],
     [media |-> "all", selector |-> ".avatar", property |-> "border",
      hook |-> "profile-accent-color", default |-> "#0066cc"],
     [media |-> "all", selector |-> ".name", property |-> "color",
      hook |-> "profile-text-primary", default |-> "#1a1a1a"],
     [media |-> "all", selector |-> ".title", property |-> "color",
      hook |-> "profile-text-secondary", default |-> "#666666"],
     [media |-> "all", selector |-> ".content", property |-> "color",
      hook |-> "profile-text-primary", default |-> "#1a1a1a"] }

ProfileCard_darkRules ==
    { [media |-> "dark", selector |-> ".container", property |-> "background",
      hook |-> "profile-bg-color-dark", default |-> "#2a2a2a"],
     [media |-> "dark", selector |-> ".container", property |-> "border-color",
      hook |-> "profile-border-color-dark", default |-> "#404040"],
     [media |-> "dark", selector |-> ".name", property |-> "color",
      hook |-> "profile-text-primary-dark", default |-> "#ffffff"],
     [media |-> "dark", selector |-> ".title", property |-> "color",
      hook |-> "profile-text-secondary-dark", default |-> "#b0b0b0"],
     [media |-> "dark", selector |-> ".content", property |-> "color",
      hook |-> "profile-text-primary-dark", default |-> "#ffffff"] }

ProfileCard_styles == ProfileCard_lightRules \cup ProfileCard_darkRules

ProfileCardDefaults ==
    [name |-> "", title |-> "", avatar |-> "", clickable |-> FALSE]

\* variant: the root is never put in the tab order
ProfileCard_root_notFocusable(self) ==
    [tag |-> "div",
     class |-> {"container"},
     part |-> "container",
     role |-> IF self.clickable THEN "button" ELSE "article",
     tabindex |-> -1,
     listeners |-> {"click", "keydown"}]

\* variant: the view keeps a trace of earlier activations
ProfileCard_root_marksActivated(self) ==
    [tag |-> "div",
     class |-> IF events = <<>> THEN {"container"}
                                ELSE {"container", "activated"},
     part |-> "container",
     role |-> IF self.clickable THEN "button" ELSE "article",
     tabindex |-> IF self.clickable THEN 0 ELSE -1,
     listeners |-> {"click", "keydown"}]

ProfileCard_root(self) ==
    [tag |-> "div",
     class |-> {"container"},
     part |-> "container",
     role |-> IF self.clickable THEN "button" ELSE "article",
     tabindex |-> IF self.clickable THEN 0 ELSE -1,
     listeners |-> {"click", "keydown"}]

\* variant: the image is rendered whether or not an avatar is set
ProfileCard_avatar_unconditional(self) ==
    <<[tag |-> "img", class |-> "avatar", src |-> self.avatar,
       alt |-> "Avatar of " \o self.name, loading |-> "lazy"]>>

ProfileCard_avatar(self) ==
    IF self.avatar # ""
        THEN <<[tag |-> "img", class |-> "avatar", src |-> self.avatar,
                alt |-> "Avatar of " \o self.name, loading |-> "lazy"]>>
        ELSE <<>>

\* variant: the name is inserted as markup instead of text
ProfileCard_info_nameAsMarkup(self) ==
    (IF self.name = "<b>Sarah</b>"
        THEN <<[tag |-> "h2", class |-> "name", text |-> ""],
               [tag |-> "b", class |-> "", text |-> "Sarah"]>>
        ELSE <<[tag |-> "h2", class |-> "name", text |-> self.name]>>)
    \o (IF self.title # ""
            THEN <<[tag |-> "p", class |-> "title", text |-> self.title]>>
            ELSE <<>>)

\* variant: the name heading is made optional like the title
ProfileCard_info_nameOptional(self) ==
    (IF self.name # ""
        THEN <<[tag |-> "h2", class |-> "name", text |-> self.name]>>
        ELSE <<>>)
    \o (IF self.title # ""
            THEN <<[tag |-> "p", class |-> "title", text |-> self.title]>>
            ELSE <<>>)

ProfileCard_info(self) ==
    <<[tag |-> "h2", class |-> "name", text |-> self.name]>>
    \o (IF self.title # ""
            THEN <<[tag |-> "p", class |-> "title", text |-> self.title]>>
            ELSE <<>>)

\* variant: the slot block is placed above the header
ProfileCard_render_contentFirst(self) ==
    [root |-> ProfileCard_root(self),
     blocks |-> <<"content", "header">>,
     header |-> ProfileCard_avatar(self) \o ProfileCard_info(self),
     content |-> <<[tag |-> "slot"]>>]

\* The view: the root's attributes, its child blocks in document order, the
\* elements of the header in document order, and the elements of the
\* content block.
ProfileCard_render(self) ==
    [root |-> ProfileCard_root(self),
     blocks |-> <<"header", "content">>,
     header |-> ProfileCard_avatar(self) \o ProfileCard_info(self),
     content |-> <<[tag |-> "slot"]>>]

\* variant: the clickable gate is dropped
ProfileCard_handleClick_ungated(self) ==
    <<CustomEvent("profile-click",
          [detail |-> [name |-> self.name, title |-> self.title],
           bubbles |-> TRUE, composed |-> TRUE])>>

\* variant: a card without a name is not activated
ProfileCard_handleClick_needsName(self) ==
    IF self.clickable /\ self.name # ""
        THEN <<CustomEvent("profile-click",
                   [detail |-> [name |-> self.name, title |-> self.title],
                    bubbles |-> TRUE, composed |-> TRUE])>>
        ELSE <<>>

\* variant: the payload's title is read from the wrong property
ProfileCard_handleClick_wrongDetail(self) ==
    IF self.clickable
        THEN <<CustomEvent("profile-click",
                   [detail |-> [name |-> self.name, title |-> self.name],
                    bubbles |-> TRUE, composed |-> TRUE])>>
        ELSE <<>>

ProfileCard_handleClick(self) ==
    IF self.clickable
        THEN <<CustomEvent("profile-click",
                   [detail |-> [name |-> self.name, title |-> self.title],
                    bubbles |-> TRUE, composed |-> TRUE])>>
        ELSE <<>>

\* variant: the key test alone guards preventDefault; the flag is left to
\* _handleClick
ProfileCard_handleKeyDown_keyGateOnly(self, e) ==
    IF e.key = "Enter" \/ e.key = " "
        THEN [e |-> [e EXCEPT !.defaultPrevented = TRUE],
              dispatched |-> ProfileCard_handleClick(self)]
        ELSE [e |-> e, dispatched |-> <<>>]

\* variant: every key activates
ProfileCard_handleKeyDown_anyKey(self, e) ==
    IF self.clickable
        THEN [e |-> [e EXCEPT !.defaultPrevented = TRUE],
              dispatched |-> ProfileCard_handleClick(self)]
        ELSE [e |-> e, dispatched |-> <<>>]

ProfileCard_handleKeyDown(self, e) ==
    IF self.clickable /\ (e.key = "Enter" \/ e.key = " ")
        THEN [e |-> [e EXCEPT !.defaultPrevented = TRUE],
              dispatched |-> ProfileCard_handleClick(self)]
        ELSE [e |-> e, dispatched |-> <<>>]

----------------------------------------------------------------------------
(* SkillBadge *)

SkillBadge_lightRules ==
    { [media |-> "all", selector |-> ".badge.beginner", property |-> "background-color",
      hook |-> "skill-beginner-bg", default |-> "#e3f2fd"],
     [media |-> "all", selector |-> ".badge.beginner", property |-> "color",
      hook |-> "skill-beginner-text", default |-> "#1976d2"],
     [media |-> "all", selector |-> ".badge.intermediate", property |-> "background-color",
      hook |-> "skill-intermediate-bg", default |-> "#f3e5f5"],
     [media |-> "all", selector |-> ".badge.intermediate", property |-> "color",
      hook |-> "skill-intermediate-text", default |-> "#7b1fa2"],
     [media |-> "all", selector |-> ".badge.advanced", property |-> "background-color",
      hook |-> "skill-advanced-bg", default |-> "#e8f5e9"],
     [media |-> "all", selector |-> ".badge.advanced", property |-> "color",
      hook |-> "skill-advanced-text", default |-> "#388e3c"],
     [media |-> "all", selector |-> ".badge.expert", property |-> "background-color",
      hook |-> "skill-expert-bg", default |-> "#fff3e0"],
     [media |-> "all", selector |-> ".badge.expert", property |-> "color",
      hook |-> "skill-expert-text", default |-> "#f57c00"] }

SkillBadge_darkRules ==
    { [media |-> "dark", selector |-> ".badge.beginner", property |-> "background-color",
      hook |-> "skill-beginner-bg-dark", default |-> "#0d47a1"],
     [media |-> "dark", selector |-> ".badge.beginner", property |-> "color",
      hook |-> "skill-beginner-text-dark", default |-> "#bbdefb"],
     [media |-> "dark", selector |-> ".badge.intermediate", property |-> "background-color",
      hook |-> "skill-intermediate-bg-dark", default |-> "#4a148c"],
     [media |-> "dark", selector |-> ".badge.intermediate", property |-> "color",
      hook |-> "skill-intermediate-text-dark", default |-> "#e1bee7"],
     [media |-> "dark", selector |-> ".badge.advanced", property |-> "background-color",
      hook |-> "skill-advanced-bg-dark", default |-> "#1b5e20"],
     [media |-> "dark", selector |-> ".badge.advanced", property |-> "color",
      hook |-> "skill-advanced-text-dark", default |-> "#c8e6c9"],
     [media |-> "dark", selector |-> ".badge.expert", property |-> "background-color",
      hook |-> "skill-expert-bg-dark", default |-> "#e65100"],
     [media |-> "dark", selector |-> ".badge.expert", property |-> "color",
      hook |-> "skill-expert-text-dark", default |-> "#ffe0b2"] }

\* variant: the dark block omits the expert level
SkillBadge_styles_noDarkExpert ==
    SkillBadge_lightRules
    \cup {d \in SkillBadge_darkRules : d.selector # ".badge.expert"}

SkillBadge_styles == SkillBadge_lightRules \cup SkillBadge_darkRules

\* variant: the level initialiser names the first level
SkillBadgeDefaults_beginner ==
    [skill |-> "", level |-> "beginner", clickable |-> FALSE]

SkillBadgeDefaults ==
    [skill |-> "", level |-> "intermediate", clickable |-> FALSE]

\* variant: the computed level key is written after the clickable key
SkillBadge_classes_levelLast(self) ==
    ObjectLiteral(<< <<"badge", TRUE>>,
                     <<"clickable", self.clickable>>,
                     <<self.level, TRUE>> >>)

\* variant: the level class is a fixed key instead of the computed one
SkillBadge_classes_fixedLevel(self) ==
    ObjectLiteral(<< <<"badge", TRUE>>,
                     <<"intermediate", TRUE>>,
                     <<"clickable", self.clickable>> >>)

SkillBadge_classes(self) ==
    ObjectLiteral(<< <<"badge", TRUE>>,
                     <<self.level, TRUE>>,
                     <<"clickable", self.clickable>> >>)

\* variant: the root stays in the tab order when not clickable
SkillBadge_root_alwaysFocusable(self) ==
    [tag |-> "span",
     class |-> classMap(SkillBadge_classes(self)),
     part |-> "badge",
     role |-> IF self.clickable THEN "button" ELSE "status",
     tabindex |-> 0,
     ariaLabel |-> self.skill \o " - " \o self.level \o " level",
     listeners |-> {"click", "keydown"}]

SkillBadge_root(self) ==
    [tag |-> "span",
     class |-> classMap(SkillBadge_classes(self)),
     part |-> "badge",
     role |-> IF self.clickable THEN "button" ELSE "status",
     tabindex |-> IF self.clickable THEN 0 ELSE -1,
     ariaLabel |-> self.skill \o " - " \o self.level \o " level",
     listeners |-> {"click", "keydown"}]

SkillBadge_render(self) ==
    [root |-> SkillBadge_root(self),
     header |-> <<[tag |-> "#text", text |-> self.skill]>>,
     content |-> <<>>]

\* variant: the clickable gate is dropped
SkillBadge_handleClick_ungated(self) ==
    <<CustomEvent("badge-click",
          [detail |-> [skill |-> self.skill, level |-> self.level],
           bubbles |-> TRUE, composed |-> TRUE])>>

\* variant: a badge without a skill is not activated
SkillBadge_handleClick_needsSkill(self) ==
    IF self.clickable /\ self.skill # ""
        THEN <<CustomEvent("badge-click",
                   [detail |-> [skill |-> self.skill, level |-> self.level],
                    bubbles |-> TRUE, composed |-> TRUE])>>
        ELSE <<>>

\* variant: the event stops at the shadow boundary
SkillBadge_handleClick_notComposed(self) ==
    IF self.clickable
        THEN <<CustomEvent("badge-click",
                   [detail |-> [skill |-> self.skill, level |-> self.level],
                    bubbles |-> TRUE, composed |-> FALSE])>>
        ELSE <<>>

SkillBadge_handleClick(self) ==
    IF self.clickable
        THEN <<CustomEvent("badge-click",
                   [detail |-> [skill |-> self.skill, level |-> self.level],
                    bubbles |-> TRUE, composed |-> TRUE])>>
        ELSE <<>>

\* variant: the key test alone guards preventDefault; the flag is left to
\* _handleClick
SkillBadge_handleKeyDown_keyGateOnly(self, e) ==
    IF e.key = "Enter" \/ e.key = " "
        THEN [e |-> [e EXCEPT !.defaultPrevented = TRUE],
              dispatched |-> SkillBadge_handleClick(self)]
        ELSE [e |-> e, dispatched |-> <<>>]

\* variant: preventDefault is called before the key is examined
SkillBadge_handleKeyDown_preventAlways(self, e) ==
    IF self.clickable /\ (e.key = "Enter" \/ e.key = " ")
        THEN [e |-> [e EXCEPT !.defaultPrevented = TRUE],
              dispatched |-> SkillBadge_handleClick(self)]
        ELSE [e |-> [e EXCEPT !.defaultPrevented = TRUE],
              dispatched |-> <<>>]

\* variant: only the space key activates
SkillBadge_handleKeyDown_spaceOnly(self, e) ==
    IF self.clickable /\ e.key = " "
        THEN [e |-> [e EXCEPT !.defaultPrevented = TRUE],
              dispatched |-> SkillBadge_handleClick(self)]
        ELSE [e |-> e, dispatched |-> <<>>]

SkillBadge_handleKeyDown(self, e) ==
    IF self.clickable /\ (e.key = "Enter" \/ e.key = " ")
        THEN [e |-> [e EXCEPT !.defaultPrevented = TRUE],
              dispatched |-> SkillBadge_handleClick(self)]
        ELSE [e |-> e, dispatched |-> <<>>]

----------------------------------------------------------------------------
(* The element instance and the steps it takes *)

IsCard  == tag = "profile-card"
IsBadge == tag = "skill-badge"

Step(op, key, prevented, dispatched) ==
    [op |-> op, key |-> key, defaultPrevented |-> prevented,
     dispatched |-> dispatched]

Init ==
    /\ tag \in {"profile-card", "skill-badge"}
    /\ el = IF tag = "profile-card" THEN ProfileCardDefaults
                                    ELSE SkillBadgeDefaults
    /\ rendered = <<>>
    /\ isUpdatePending = TRUE
    /\ events = <<>>
    /\ last = Step("create", "", FALSE, <<>>)

\* variant: the property is a plain field, no update is requested
SetProperty_noRequest(self) ==
    /\ el' = self
    /\ isUpdatePending' = isUpdatePending
    /\ last' = Step("set", "", FALSE, <<>>)
    /\ UNCHANGED <<tag, rendered, events>>

\* A reactive property is assigned: the value is stored and, when it differs
\* from the old one, an update is requested.
SetProperty(self) ==
    /\ el' = self
    /\ isUpdatePending' = (isUpdatePending \/ self # el)
    /\ last' = Step("set", "", FALSE, <<>>)
    /\ UNCHANGED <<tag, rendered, events>>

ProfileCardSetName ==
    IsCard /\ \E v \in Names : SetProperty([el EXCEPT !.name = v])

ProfileCardSetTitle ==
    IsCard /\ \E v \in Titles : SetProperty([el EXCEPT !.title = v])

ProfileCardSetAvatar ==
    IsCard /\ \E v \in Avatars : SetProperty([el EXCEPT !.avatar = v])

ProfileCardSetClickable ==
    IsCard /\ \E v \in BOOLEAN : SetProperty([el EXCEPT !.clickable = v])

SkillBadgeSetSkill ==
    IsBadge /\ \E v \in Skills : SetProperty([el EXCEPT !.skill = v])

SkillBadgeSetLevel ==
    IsBadge /\ \E v \in Levels : SetProperty([el EXCEPT !.level = v])

SkillBadgeSetClickable ==
    IsBadge /\ \E v \in BOOLEAN : SetProperty([el EXCEPT !.clickable = v])

\* variant: the pass writes a repaired level back to the property
PerformUpdate_writesLevelBack ==
    /\ isUpdatePending
    /\ el' = IF IsBadge /\ el.level \notin LevelNames
                THEN [el EXCEPT !.level = "intermediate"]
                ELSE el
    /\ rendered' = <<IF IsCard THEN ProfileCard_render(el')
                               ELSE SkillBadge_render(el')>>
    /\ isUpdatePending' = FALSE
    /\ last' = Step("update", "", FALSE, <<>>)
    /\ UNCHANGED <<tag, events>>

\* variant: a pass adds the new classes to the root and keeps the old ones
PerformUpdate_keepsOldClasses ==
    /\ isUpdatePending
    /\ LET v == IF IsCard THEN ProfileCard_render(el)
                          ELSE SkillBadge_render(el)
       IN  rendered' =
             IF rendered = <<>>
                THEN <<v>>
                ELSE <<[v EXCEPT !.root.class = @ \cup rendered[1].root.class]>>
    /\ isUpdatePending' = FALSE
    /\ last' = Step("update", "", FALSE, <<>>)
    /\ UNCHANGED <<tag, el, events>>

\* The scheduled render pass: render() is committed to the shadow root.
PerformUpdate ==
    /\ isUpdatePending
    /\ rendered' = <<IF IsCard THEN ProfileCard_render(el)
                               ELSE SkillBadge_render(el)>>
    /\ isUpdatePending' = FALSE
    /\ last' = Step("update", "", FALSE, <<>>)
    /\ UNCHANGED <<tag, el, events>>

\* Inputs reach the handlers through the listeners of the rendered root.
CanInput ==
    /\ rendered # <<>>
    /\ Len(events) < MaxEvents

\* variant: the event is queued and handed out by the next render pass
ProfileCardClick_deferred ==
    /\ IsCard /\ CanInput
    /\ "click" \in rendered[1].root.listeners
    /\ isUpdatePending' = (isUpdatePending \/ ProfileCard_handleClick(el) # <<>>)
    /\ events' = events
    /\ last' = Step("click", "", FALSE, <<>>)
    /\ UNCHANGED <<tag, el, rendered>>

ProfileCardClick ==
    /\ IsCard /\ CanInput
    /\ "click" \in rendered[1].root.listeners
    /\ LET d == ProfileCard_handleClick(el)
       IN  /\ events' = events \o d
           /\ last' = Step("click", "", FALSE, d)
    /\ UNCHANGED <<tag, el, rendered, isUpdatePending>>

ProfileCardKeyDown ==
    /\ IsCard /\ CanInput
    /\ "keydown" \in rendered[1].root.listeners
    /\ \E k \in Keys :
         LET r == ProfileCard_handleKeyDown(el, KeyboardEvent(k))
         IN  /\ events' = events \o r.dispatched
             /\ last' = Step("keydown", k, r.e.defaultPrevented, r.dispatched)
    /\ UNCHANGED <<tag, el, rendered, isUpdatePending>>

\* variant: the gate is the role the displayed root carries
SkillBadgeClick_gateFromView ==
    /\ IsBadge /\ CanInput
    /\ "click" \in rendered[1].root.listeners
    /\ LET d == SkillBadge_handleClick(
                    [el EXCEPT !.clickable = (rendered[1].root.role = "button")])
       IN  /\ events' = events \o d
           /\ last' = Step("click", "", FALSE, d)
    /\ UNCHANGED <<tag, el, rendered, isUpdatePending>>

SkillBadgeClick ==
    /\ IsBadge /\ CanInput
    /\ "click" \in rendered[1].root.listeners
    /\ LET d == SkillBadge_handleClick(el)
       IN  /\ events' = events \o d
           /\ last' = Step("click", "", FALSE, d)
    /\ UNCHANGED <<tag, el, rendered, isUpdatePending>>

SkillBadgeKeyDown ==
    /\ IsBadge /\ CanInput
    /\ "keydown" \in rendered[1].root.listeners
    /\ \E k \in Keys :
         LET r == SkillBadge_handleKeyDown(el, KeyboardEvent(k))
         IN  /\ events' = events \o r.dispatched
             /\ last' = Step("keydown", k, r.e.defaultPrevented, r.dispatched)
    /\ UNCHANGED <<tag, el, rendered, isUpdatePending>>

Next ==
    \/ ProfileCardSetName
    \/ ProfileCardSetTitle
    \/ ProfileCardSetAvatar
    \/ ProfileCardSetClickable
    \/ SkillBadgeSetSkill
    \/ SkillBadgeSetLevel
    \/ SkillBadgeSetClickable
    \/ PerformUpdate
    \/ ProfileCardClick
    \/ ProfileCardKeyDown
    \/ SkillBadgeClick
    \/ SkillBadgeKeyDown

Spec == Init /\ [][Next]_vars

\* The requested render pass is a microtask: once scheduled it runs.
FairSpec == Spec /\ WF_vars(PerformUpdate)

TypeOK ==
    /\ tag \in {"profile-card", "skill-badge"}
    /\ isUpdatePending \in BOOLEAN
    /\ Len(rendered) <= 1
    /\ Len(events) <= MaxEvents

----------------------------------------------------------------------------
(* Properties *)

\* the handlers of the instance's class
handleClick(self) ==
    IF IsCard THEN ProfileCard_handleClick(self)
              ELSE SkillBadge_handleClick(self)

handleKeyDown(self, e) ==
    IF IsCard THEN ProfileCard_handleKeyDown(self, e)
              ELSE SkillBadge_handleKeyDown(self, e)

ActivationKeys == {"Enter", " "}

\* C1: an event is dispatched only by a step taken while clickable is true;
\* a click or a keydown (any key) on an instance whose clickable flag is
\* false dispatches nothing and leaves the event log as it was.
C1_NoEventUnlessClickable ==
    [][ /\ events' # events => el.clickable /\ el'.clickable
        /\ (last'.op \in {"click", "keydown"} /\ ~el.clickable)
              => (events' = events /\ last'.dispatched = <<>>) ]_vars

C1_Witness ==
    /\ last.op = "keydown" /\ last.key = "Enter"
    /\ ~el.clickable
    /\ rendered # <<>>
    /\ events = <<>>

\* C2: on a clickable instance a click and an Enter keydown each dispatch
\* exactly one event, and the event of either input is the event the other
\* input dispatches in the same attribute state (same type, same detail).
C2_ClickAndEnterSameEvent ==
    (el.clickable /\ (last.op = "click"
                        \/ (last.op = "keydown" /\ last.key = "Enter")))
    => /\ Len(last.dispatched) = 1
       /\ last.dispatched =
            (IF last.op = "click"
                THEN handleKeyDown(el, KeyboardEvent("Enter")).dispatched
                ELSE handleClick(el))
       /\ last.dispatched[1].type =
            (IF IsCard THEN "profile-click" ELSE "badge-click")

C2_Witness ==
    /\ IsBadge
    /\ last.op = "keydown" /\ last.key = "Enter"
    /\ el.clickable
    /\ Len(events) = 1
    /\ events[1].detail = [skill |-> "TypeScript", level |-> "expert"]

\* C3: a keydown step dispatches what a click dispatches exactly when
\* clickable is true and the key is Enter or space, and then it dispatches an
\* event; any other keydown dispatches nothing, does not prevent the default
\* and changes neither the properties nor the view nor the pending update.
C3_KeyDownActivatesOnlyOnEnterOrSpace ==
    [][ last'.op = "keydown" =>
          IF el.clickable /\ last'.key \in ActivationKeys
            THEN /\ handleClick(el) # <<>>
                 /\ events' = events \o handleClick(el)
                 /\ UNCHANGED <<tag, el, rendered, isUpdatePending>>
            ELSE /\ ~last'.defaultPrevented
                 /\ last'.dispatched = <<>>
                 /\ UNCHANGED <<tag, el, rendered, isUpdatePending, events>>
      ]_vars

C3_Witness ==
    /\ IsCard
    /\ last.op = "keydown" /\ last.key = "Escape"
    /\ el.clickable
    /\ events = <<>>

\* the displayed view is the render of the current properties
UpToDate == rendered # <<>> /\ ~isUpdatePending

ElementsOf(elements, t) == SelectSeq(elements, LAMBDA e : e.tag = t)

LevelClassesOf(view) == view.root.class \cap LevelNames

\* C4: for a SkillBadge whose level is one of the four level names, the
\* rendered root carries exactly one level class, the one named by level,
\* whatever skill and clickable are.
C4_OneLevelClassForValidLevel ==
    (IsBadge /\ UpToDate /\ el.level \in LevelNames)
    => LevelClassesOf(rendered[1]) = {el.level}

C4_Witness ==
    /\ IsBadge /\ UpToDate
    /\ last.op = "update"
    /\ el = [skill |-> "TypeScript", level |-> "expert", clickable |-> TRUE]

\* C5: for a SkillBadge whose level is none of the four level names, the
\* rendered root carries the 'intermediate' class (fallback to the default).
C5_InvalidLevelFallsBackToIntermediate ==
    (IsBadge /\ UpToDate /\ el.level \notin LevelNames)
    => "intermediate" \in rendered[1].root.class

\* C6: whatever string the host assigned to level, the root of a displayed
\* SkillBadge view carries exactly one of the four level classes and no
\* class outside the documented vocabulary.
C6_ExactlyOneLevelVariant ==
    (IsBadge /\ rendered # <<>>)
    => /\ Cardinality(LevelClassesOf(rendered[1])) = 1
       /\ rendered[1].root.class \subseteq LevelNames \cup {"badge", "clickable"}

\* C7: the ProfileCard view has an img element exactly when avatar is not
\* empty (and never more than one); its alt is "Avatar of " followed by
\* name and its src is avatar.
C7_MediaIffAvatar ==
    (IsCard /\ UpToDate)
    => LET imgs == ElementsOf(rendered[1].header, "img")
       IN  /\ Len(imgs) = (IF el.avatar = "" THEN 0 ELSE 1)
           /\ \A i \in DOMAIN imgs :
                 /\ imgs[i].alt = "Avatar of " \o el.name
                 /\ imgs[i].src = el.avatar

C7_Witness ==
    /\ IsCard /\ UpToDate
    /\ last.op = "update"
    /\ el.avatar # "" /\ el.name = "Sarah Johnson"
    /\ ElementsOf(rendered[1].header, "img") # <<>>

\* C8: the ProfileCard view always has exactly one name heading whose text
\* is name, also when name is empty; it has a title paragraph exactly when
\* title is not empty, and then its text is title.
C8_NameAlwaysTitleIffNonEmpty ==
    (IsCard /\ UpToDate)
    => LET h2 == ElementsOf(rendered[1].header, "h2")
           p  == ElementsOf(rendered[1].header, "p")
       IN  /\ Len(h2) = 1 /\ h2[1].text = el.name
           /\ Len(p) = (IF el.title = "" THEN 0 ELSE 1)
           /\ \A i \in DOMAIN p : p[i].text = el.title

C8_Witness ==
    /\ IsCard /\ UpToDate
    /\ last.op = "update"
    /\ el.name = "" /\ el.title = "Frontend Developer"
    /\ Len(ElementsOf(rendered[1].header, "h2")) = 1

\* C9: the rendered root has role 'button' and tabindex 0 when clickable is
\* true, and role 'article' (ProfileCard) or 'status' (SkillBadge) and
\* tabindex -1 when it is false; in any displayed view, stale or not, the
\* role is 'button' exactly when the tabindex is 0.
C9_RoleAndTabindexFollowClickable ==
    /\ UpToDate =>
         /\ rendered[1].root.role =
              (IF el.clickable THEN "button"
               ELSE IF IsCard THEN "article" ELSE "status")
         /\ rendered[1].root.tabindex = (IF el.clickable THEN 0 ELSE -1)
    /\ rendered # <<>> =>
         /\ rendered[1].root.tabindex \in {0, -1}
         /\ rendered[1].root.role = "button" <=> rendered[1].root.tabindex = 0

C9_Witness ==
    /\ IsBadge /\ UpToDate
    /\ last.op = "update"
    /\ ~el.clickable
    /\ rendered[1].root.role = "status"
    /\ rendered[1].root.tabindex = -1

\* the properties an event's detail is taken from
Snapshot(self) ==
    IF IsCard THEN [name |-> self.name, title |-> self.title]
              ELSE [skill |-> self.skill, level |-> self.level]

\* C10: the detail of every event a step dispatches equals the properties
\* as they are at that step, and no step (a property assignment in
\* particular) changes an event that is already in the log.
C10_PayloadIsSnapshot ==
    [][ /\ Len(events') >= Len(events)
        /\ SubSeq(events', 1, Len(events)) = events
        /\ \A i \in (Len(events) + 1)..Len(events') :
              events'[i].detail = Snapshot(el)
      ]_vars

C10_Witness ==
    /\ IsCard
    /\ last.op = "set"
    /\ Len(events) = 1
    /\ events[1].detail = [name |-> "Sarah Johnson", title |-> "Frontend Developer"]
    /\ el.name = "" /\ el.title = ""

\* C11: every event in the log, and every event the last step dispatched
\* (by a click or from the keyboard), has bubbles and composed set.
C11_EventsBubbleAndAreComposed ==
    /\ \A i \in DOMAIN events : events[i].bubbles /\ events[i].composed
    /\ \A i \in DOMAIN last.dispatched :
          last.dispatched[i].bubbles /\ last.dispatched[i].composed

C11_Witness ==
    /\ IsBadge
    /\ last.op = "keydown" /\ last.key = " "
    /\ Len(events) = 1
    /\ events[1].bubbles /\ events[1].composed

\* the one event type of the instance's class
EventType == IF IsCard THEN "profile-click" ELSE "badge-click"

\* C12: every dispatched event has the type of its component ('profile-click'
\* for ProfileCard, 'badge-click' for SkillBadge); a click dispatches one
\* event when clickable is true, whatever the other properties are, and none
\* when it is false.
C12_OneEventTypePerComponent ==
    /\ \A i \in DOMAIN events : events[i].type = EventType
    /\ last.op = "click" =>
          /\ Len(last.dispatched) = (IF el.clickable THEN 1 ELSE 0)
          /\ \A i \in DOMAIN last.dispatched :
                last.dispatched[i].type = EventType

C12_Witness ==
    /\ IsCard
    /\ last.op = "click"
    /\ el = [name |-> "", title |-> "", avatar |-> "", clickable |-> TRUE]
    /\ Len(events) = 1
    /\ events[1].type = "profile-click"

\* render() of the instance's class
render(self) ==
    IF IsCard THEN ProfileCard_render(self) ELSE SkillBadge_render(self)

\* C13: render depends on the current properties only: whenever no property
\* has changed since the last render pass, calling render again, after
\* whatever clicks and key inputs happened in between, yields the view the
\* pass displayed; instances with equal properties display equal views.
C13_RenderIsPure ==
    UpToDate => rendered[1] = render(el)

C13_Witness ==
    /\ IsCard /\ UpToDate
    /\ last.op = "keydown" /\ last.key = "Enter"
    /\ Len(events) = 1
    /\ el.name = "Sarah Johnson" /\ el.clickable

\* C14: a keydown step prevents the default only if its key is Enter or
\* space; for any other key, in any property state, the default is kept.
C14_PreventDefaultOnlyOnActivationKeys ==
    (last.op = "keydown" /\ last.defaultPrevented)
    => last.key \in ActivationKeys

C14_Witness ==
    /\ IsBadge
    /\ last.op = "keydown" /\ last.key = "Escape"
    /\ el.clickable
    /\ ~last.defaultPrevented

\* C15: a step that changes a property leaves a render pass scheduled;
\* whenever no pass is pending the displayed view is render of the current
\* properties; and, the scheduled pass being run eventually, a pending
\* update leads to a state whose displayed view is render of the properties.
C15_MutationSchedulesRender ==
    /\ [][el' # el => isUpdatePending']_vars
    /\ [](UpToDate => rendered = <<render(el)>>)
    /\ isUpdatePending ~> (~isUpdatePending /\ rendered = <<render(el)>>)

C15_Witness ==
    /\ last.op = "set"
    /\ isUpdatePending
    /\ rendered # <<>>
    /\ rendered[1] # render(el)

\* C16: the view a render pass displays is the one a render made right
\* after the latest mutation displays, however many mutations the pass
\* coalesces and whatever the passes before it displayed: it is render of
\* the current properties and nothing of the previous view remains.
C16_BatchingNotObservable ==
    [][ last'.op = "update" =>
          /\ isUpdatePending /\ ~isUpdatePending'
          /\ el' = el
          /\ rendered' = <<render(el)>> ]_vars

C16_Witness ==
    /\ IsBadge /\ UpToDate
    /\ last.op = "update"
    /\ el = [skill |-> "TypeScript", level |-> "advanced", clickable |-> TRUE]
    /\ rendered[1].root.class = {"badge", "advanced", "clickable"}

\* C17: a newly created ProfileCard has name, title and avatar empty and
\* clickable false; a newly created SkillBadge has skill empty, level
\* 'intermediate' and clickable false. An instance holding these values
\* dispatches nothing on a click or on any key, and such a SkillBadge
\* renders the 'intermediate' level class and no other.
C17_FreshInstanceHasDefaults ==
    LET fresh == IF IsCard
                    THEN [name |-> "", title |-> "", avatar |-> "",
                          clickable |-> FALSE]
                    ELSE [skill |-> "", level |-> "intermediate",
                          clickable |-> FALSE]
    IN  /\ last.op = "create" => (el = fresh /\ events = <<>>)
        /\ (el = fresh /\ last.op \in {"click", "keydown"})
              => last.dispatched = <<>>
        /\ (el = fresh /\ IsBadge /\ UpToDate)
              => LevelClassesOf(rendered[1]) = {"intermediate"}

C17_Witness ==
    /\ IsBadge /\ UpToDate
    /\ el = [skill |-> "", level |-> "intermediate", clickable |-> FALSE]
    /\ last.op = "keydown" /\ last.key = " "
    /\ events = <<>>
    /\ "intermediate" \in rendered[1].root.class

\* C18: a ProfileCard with name "Sarah Johnson", title "Frontend Developer",
\* no avatar and clickable true renders a heading with the name and a
\* paragraph with the title, no img, and tabindex 0; a click on it dispatches
\* exactly one event, whose detail holds that name and that title.
C18_SarahJohnsonScenario ==
    (IsCard /\ el = [name |-> "Sarah Johnson", title |-> "Frontend Developer",
                      avatar |-> "", clickable |-> TRUE])
    => /\ UpToDate =>
            /\ \E i \in DOMAIN rendered[1].header :
                  /\ rendered[1].header[i].tag = "h2"
                  /\ rendered[1].header[i].text = "Sarah Johnson"
            /\ \E i \in DOMAIN rendered[1].header :
                  /\ rendered[1].header[i].tag = "p"
                  /\ rendered[1].header[i].text = "Frontend Developer"
            /\ ElementsOf(rendered[1].header, "img") = <<>>
            /\ rendered[1].root.tabindex = 0
       /\ last.op = "click" =>
            /\ Len(last.dispatched) = 1
            /\ last.dispatched[1].detail.name = "Sarah Johnson"
            /\ last.dispatched[1].detail.title = "Frontend Developer"

C18_Witness ==
    /\ IsCard /\ UpToDate
    /\ el = [name |-> "Sarah Johnson", title |-> "Frontend Developer",
             avatar |-> "", clickable |-> TRUE]
    /\ last.op = "click"
    /\ Len(events) = 1

\* C19: a SkillBadge with skill "TypeScript", level "advanced" and clickable
\* false renders tabindex -1 and the 'advanced' level class and no other
\* level class; a click on it dispatches no event.
C19_TypeScriptBadgeScenario ==
    (IsBadge /\ el = [skill |-> "TypeScript", level |-> "advanced",
                       clickable |-> FALSE])
    => /\ UpToDate =>
            /\ rendered[1].root.tabindex = -1
            /\ "advanced" \in rendered[1].root.class
            /\ LevelClassesOf(rendered[1]) \ {"advanced"} = {}
       /\ last.op = "click" => Len(last.dispatched) = 0

C19_Witness ==
    /\ IsBadge /\ UpToDate
    /\ el = [skill |-> "TypeScript", level |-> "advanced", clickable |-> FALSE]
    /\ last.op = "click"
    /\ events = <<>>

\* the stylesheet of the instance's class
styles == IF IsCard THEN ProfileCard_styles ELSE SkillBadge_styles

LightHooks == {d.hook : d \in {x \in styles : x.media = "all"}}
DarkHooks  == {d.hook : d \in {x \in styles : x.media = "dark"}}

\* the hooks that are read outside the dark block only
LightOnlyHooks ==
    {"profile-border-radius", "profile-padding", "profile-shadow",
     "profile-shadow-hover", "profile-accent-color"}

\* C20 (as stated): every hook with a light default has a counterpart
\* <hook>-dark, with a default, in the prefers-color-scheme: dark block.
C20_EveryHookHasDarkCounterpart ==
    \A h \in LightHooks :
        \E d \in styles :
            d.media = "dark" /\ d.hook = h \o "-dark" /\ d.default # ""

\* C20 (amended): every hook of SkillBadge, and every hook of ProfileCard
\* but border-radius, padding, shadow, shadow-hover and accent-color, has a
\* counterpart <hook>-dark with a default in the dark block; those five
\* have a light default only; every dark hook is such a counterpart.
C20_ColourHooksHaveDarkCounterpart ==
    /\ \A h \in LightHooks :
          h \notin LightOnlyHooks <=>
            \E d \in styles :
                d.media = "dark" /\ d.hook = h \o "-dark" /\ d.default # ""
    /\ \A k \in DarkHooks : \E h \in LightHooks : k = h \o "-dark"
    /\ IsCard => LightOnlyHooks \subseteq LightHooks

C20_Witness ==
    /\ IsCard /\ UpToDate
    /\ "profile-bg-color" \in LightHooks
    /\ "profile-bg-color-dark" \in DarkHooks
    /\ "profile-accent-color" \in LightHooks
    /\ "profile-accent-color-dark" \notin DarkHooks

\* the structure of a view: the root's role, tabindex and classes and the
\* tags of the elements present, in order
Structure(view) ==
    [role |-> view.root.role,
     tabindex |-> view.root.tabindex,
     class |-> view.root.class,
     header |-> [i \in DOMAIN view.header |-> view.header[i].tag],
     content |-> [i \in DOMAIN view.content |-> view.content[i].tag]]

\* text values a host may supply, markup included
TextProbes ==
    {"", "Sarah Johnson", "Frontend Developer", "<b>Sarah</b>",
     "<img src=x onerror=alert(1)>"}

\* C21: the structure of the displayed ProfileCard view is the structure
\* render gives to any instance with the same clickable flag, any name
\* whatever (markup included), and any title and avatar that are empty
\* exactly when the instance's are; the name heading and title paragraph
\* carry the text verbatim.
C21_TextIsInert ==
    (IsCard /\ UpToDate)
    => \A n \in TextProbes, t \in TextProbes, a \in TextProbes :
         ((t = "") = (el.title = "") /\ (a = "") = (el.avatar = ""))
         => LET v == ProfileCard_render(
                        [el EXCEPT !.name = n, !.title = t, !.avatar = a])
            IN  /\ Structure(v) = Structure(rendered[1])
                /\ ElementsOf(v.header, "h2")[1].text = n
                /\ \A i \in DOMAIN ElementsOf(v.header, "p") :
                      ElementsOf(v.header, "p")[i].text = t

C21_Witness ==
    /\ IsCard /\ UpToDate
    /\ last.op = "update"
    /\ el.name = "Sarah Johnson" /\ el.title = "Frontend Developer"
    /\ el.avatar # ""
    /\ Structure(rendered[1]).header = <<"img", "h2", "p">>

\* C22: whenever the listeners are bound, a click and a keydown of every
\* key complete with a result (the key event, its default prevented or not,
\* and at most one dispatched event), in every property state; and a click
\* or keydown taken while clickable is false dispatches nothing, prevents
\* nothing and changes no property, view or pending update.
C22_HandlersTotalAndNoOpWhenNotClickable ==
    /\ [](CanInput =>
            /\ IsCard => (ENABLED ProfileCardClick /\ ENABLED ProfileCardKeyDown)
            /\ IsBadge => (ENABLED SkillBadgeClick /\ ENABLED SkillBadgeKeyDown)
            /\ Len(handleClick(el)) <= 1
            /\ \A k \in Keys :
                  LET r == handleKeyDown(el, KeyboardEvent(k))
                  IN  /\ r.e.key = k
                      /\ r.e.defaultPrevented \in BOOLEAN
                      /\ Len(r.dispatched) <= 1)
    /\ [][ (last'.op \in {"click", "keydown"} /\ ~el.clickable) =>
            /\ last'.dispatched = <<>>
            /\ ~last'.defaultPrevented
            /\ UNCHANGED <<tag, el, rendered, isUpdatePending, events>> ]_vars

C22_Witness ==
    /\ IsCard
    /\ last.op = "keydown" /\ last.key = " "
    /\ ~el.clickable
    /\ ~last.defaultPrevented
    /\ el.name = "Sarah Johnson"
    /\ events = <<>>

\* C23: the events a click or keydown dispatches enter the log in that
\* very step, which leaves the properties, the view and the pending update
\* as they were (nothing is kept to await delivery or acknowledgment), and
\* no other step (property assignment, render pass) adds an event later.
C23_EmissionIsSynchronous ==
    [][ /\ last'.op \in {"click", "keydown"} =>
              /\ events' = events \o last'.dispatched
              /\ last'.dispatched = (IF last'.op = "click"
                                        THEN handleClick(el)
                                        ELSE handleKeyDown(el,
                                               KeyboardEvent(last'.key)).dispatched)
              /\ UNCHANGED <<tag, el, rendered, isUpdatePending>>
        /\ last'.op \notin {"click", "keydown"} =>
              (events' = events /\ last'.dispatched = <<>>) ]_vars

C23_Witness ==
    /\ IsCard
    /\ last.op = "click"
    /\ Len(last.dispatched) = 1
    /\ events = last.dispatched
    /\ UpToDate

\* C24: a click, or a keydown of Enter or space, dispatches an event exactly
\* when the clickable property is true at that step, whatever role and
\* tabindex the displayed root still carries: none while the property is
\* false and the stale view shows 'button' / 0, one while it is true and the
\* stale view shows the static role and -1.
C24_GateReadsCurrentProperty ==
    (rendered # <<>>
     /\ (last.op = "click"
           \/ (last.op = "keydown" /\ last.key \in ActivationKeys)))
    => /\ Len(last.dispatched) = (IF el.clickable THEN 1 ELSE 0)
       /\ (rendered[1].root.role = "button" /\ ~el.clickable)
             => last.dispatched = <<>>
       /\ (rendered[1].root.tabindex = -1 /\ el.clickable)
             => last.dispatched # <<>>

C24_Witness ==
    /\ IsBadge
    /\ isUpdatePending
    /\ rendered # <<>>
    /\ rendered[1].root.role = "button" /\ rendered[1].root.tabindex = 0
    /\ ~el.clickable
    /\ last.op = "click"
    /\ last.dispatched = <<>>

\* the properties whose value a step changes
Changed == {f \in DOMAIN el : el'[f] # el[f]}

\* C25: a click, a keydown and a render pass leave every property as it
\* was; a property assignment changes at most the one property assigned;
\* no step adds or removes a property or changes the instance's class.
C25_HandlersAndRenderKeepProperties ==
    [][ /\ tag' = tag
        /\ DOMAIN el' = DOMAIN el
        /\ last'.op \in {"click", "keydown", "update"} => el' = el
        /\ last'.op = "set" => Cardinality(Changed) <= 1 ]_vars

C25_Witness ==
    /\ IsCard
    /\ last.op = "set"
    /\ el = [name |-> "Sarah Johnson", title |-> "",
             avatar |-> "https://example.com/avatar.jpg", clickable |-> TRUE]
    /\ Len(events) = 1

\* C26: the rendered SkillBadge root always carries 'badge', and carries
\* 'clickable' exactly when the clickable property is true, for every level,
\* also when level is the string 'clickable' or 'badge'.
C26_BadgeAndClickableClasses ==
    (IsBadge /\ UpToDate)
    => /\ "badge" \in rendered[1].root.class
       /\ "clickable" \in rendered[1].root.class <=> el.clickable

C26_Witness ==
    /\ IsBadge /\ UpToDate
    /\ last.op = "update"
    /\ el.level = "clickable"
    /\ ~el.clickable
    /\ rendered[1].root.class = {"badge"}

\* C27: a keydown step prevents the default exactly when clickable is true
\* and the key is Enter or space, which are exactly the keydown steps that
\* dispatch an event; while clickable is false no key's default is prevented.
C27_PreventDefaultIffKeyboardActivation ==
    last.op = "keydown"
    => /\ last.defaultPrevented <=> (el.clickable /\ last.key \in ActivationKeys)
       /\ last.defaultPrevented <=> last.dispatched # <<>>

C27_Witness ==
    /\ IsBadge
    /\ last.op = "keydown" /\ last.key = "Enter"
    /\ ~el.clickable
    /\ ~last.defaultPrevented
    /\ UpToDate

\* the instances of the same class that have the given clickable flag
InstancesWith(c) ==
    IF IsCard
        THEN {[name |-> n, title |-> t, avatar |-> a, clickable |-> c] :
                n \in TextProbes, t \in TextProbes, a \in TextProbes}
        ELSE {[skill |-> s, level |-> l, clickable |-> c] :
                s \in TextProbes, l \in Levels}

\* C28: the input of the last step (the click, or the keydown of that key)
\* dispatches as many events on every instance with the same clickable flag
\* as it did on this one, whatever its name, title, avatar, skill or level;
\* the events differ in their detail only, which is that instance's snapshot.
C28_EmissionDependsOnClickableAndKeyOnly ==
    last.op \in {"click", "keydown"}
    => \A other \in InstancesWith(el.clickable) :
         LET d == IF last.op = "click"
                     THEN handleClick(other)
                     ELSE handleKeyDown(other, KeyboardEvent(last.key)).dispatched
         IN  /\ Len(d) = Len(last.dispatched)
             /\ \A i \in DOMAIN d :
                   /\ d[i].type = last.dispatched[i].type
                   /\ d[i].bubbles = last.dispatched[i].bubbles
                   /\ d[i].composed = last.dispatched[i].composed
                   /\ d[i].detail = Snapshot(other)

C28_Witness ==
    /\ IsBadge
    /\ last.op = "click"
    /\ el = [skill |-> "", level |-> "guru", clickable |-> TRUE]
    /\ Len(last.dispatched) = 1
    /\ events = last.dispatched

\* C29: a displayed SkillBadge view has no img, no paragraph and no slot:
\* its only child is the text of the skill; a displayed ProfileCard view
\* has its header block followed by its content block, the content block
\* holds the slot, and its root carries none of the level classes.
C29_VariantsDifferInStructure ==
    rendered # <<>> =>
        LET v == rendered[1]
            all == v.header \o v.content
        IN  /\ IsBadge =>
                  /\ ElementsOf(all, "img") = <<>>
                  /\ ElementsOf(all, "p") = <<>>
                  /\ ElementsOf(all, "slot") = <<>>
                  /\ Len(all) = 1 /\ all[1].tag = "#text"
                  /\ ~isUpdatePending => all[1].text = el.skill
            /\ IsCard =>
                  /\ v.blocks = <<"header", "content">>
                  /\ v.content = <<[tag |-> "slot"]>>
                  /\ ElementsOf(v.header, "slot") = <<>>
                  /\ LevelClassesOf(v) = {}

C29_Witness ==
    /\ IsCard /\ UpToDate
    /\ last.op = "update"
    /\ el.name = "" /\ el.title = "" /\ el.avatar = ""
    /\ el.clickable
    /\ rendered[1].content = <<[tag |-> "slot"]>>

====
